---- MODULE Spec2Model ----
(***************************************************************************)
(* Session Synchronization Engine of next-ai-draw-io: the useSessionManager *)
(* hook (src/hooks/use-session-manager.ts) over its two backends, the       *)
(* remote Firestore adapter (same file, lines 438-627) and the local        *)
(* IndexedDB adapter (lib/session-storage, modelled from its contract).     *)
(*                                                                         *)
(* Every async callback of the hook is an operation record in `ops`; it    *)
(* captures the render's values when it is called and advances one await   *)
(* at a time.  Backend writes commit when their promise resolves; backend  *)
(* reads return the store as it was when the read was issued or as it is   *)
(* when the read resolves.                                                 *)
(***************************************************************************)
EXTENDS Integers, Sequences, FiniteSets, TLC

\* ------------------------------------------------------------------ values

Null == "null"
Undefined == "undefined"
NoSession == [id |-> Null]
DefaultTitle == "New Chat"
UserId == "u1"
Local == "local"
Remote == "remote"

\* Bounds of the model.
MaxEvents == 2
MaxOps == 2

\* Ids of the sessions the stores hold at start, an id no store holds, and
\* the ids createEmptySession hands out (never reused).
StoredIds == {"a", "b"}
MissingId == "z"
TargetIds == StoredIds \cup {MissingId}
NewIds == <<"n1", "n2", "n3">>

M1 == [role |-> "user", content |-> "hello", timestamp |-> 1]
M2 == [role |-> "assistant", content |-> "ok", timestamp |-> 2]
\* M3 carries an optional field that is present and unset.
M3 == [role |-> "user", content |-> "draw", timestamp |-> 3, metadata |-> Undefined]

\* Strings that are trimmed are sequences of characters.
Blank == <<" ", " ">>
Xml1 == <<"<", "x", ">">>
Xml2 == <<" ", "<", "y", ">">>

\* ------------------------------------------------------- pure functions

IsSpace(c) == c = " "

RECURSIVE TrimLeft(_)
TrimLeft(s) ==
    IF s = <<>> THEN <<>>
    ELSE IF IsSpace(Head(s)) THEN TrimLeft(Tail(s)) ELSE s

RECURSIVE TrimRight(_)
TrimRight(s) ==
    IF s = <<>> THEN <<>>
    ELSE IF IsSpace(s[Len(s)]) THEN TrimRight(SubSeq(s, 1, Len(s) - 1)) ELSE s

Trim(s) == TrimRight(TrimLeft(s))

\* !!diagramXml && diagramXml.trim().length > 0
HasDiagram(diagramXml) == diagramXml # <<>> /\ Len(Trim(diagramXml)) > 0

\* a ?? b
Coalesce(a, b) == IF a = Undefined \/ a = Null THEN b ELSE a

\* Field f of record r, undefined when r has no such field.
Field(r, f) == IF f \in DOMAIN r THEN r[f] ELSE Undefined

Without(r, fields) == [k \in DOMAIN r \ fields |-> r[k]]

RECURSIVE FirstUser(_)
FirstUser(messages) ==
    IF messages = <<>> THEN <<>>
    ELSE IF Head(messages).role = "user" THEN <<Head(messages)>>
    ELSE FirstUser(Tail(messages))

extractTitle(messages) ==
    IF FirstUser(messages) = <<>> THEN DefaultTitle
    ELSE FirstUser(messages)[1].content

createEmptySession(newId, t) ==
    [id |-> newId, title |-> DefaultTitle, messages |-> <<>>,
     xmlSnapshots |-> <<>>, diagramXml |-> <<>>,
     createdAt |-> t, updatedAt |-> t]

\* sanitizeForFirestore on a leaf.
SanitizeLeaf(v) == IF v = Undefined THEN Null ELSE v

SanitizeMessage(m) ==
    [k \in DOMAIN m |-> IF k = "timestamp" THEN m[k] ELSE SanitizeLeaf(m[k])]

SerializeSnapshots(xmlSnapshots) ==
    [i \in 1..Len(xmlSnapshots) |->
        [ts |-> xmlSnapshots[i][1], xml |-> SanitizeLeaf(xmlSnapshots[i][2])]]

\* The snapshots rebuilt in the reverse of the stored order.
DeserializeSnapshotsReversed(items) ==
    [i \in 1..Len(items) |-> <<items[Len(items) + 1 - i].ts, items[Len(items) + 1 - i].xml>>]

\* getSessionFromFirestore's rebuild of the tuples (lines 529-532).
DeserializeSnapshots(items) ==
    [i \in 1..Len(items) |-> <<items[i].ts, items[i].xml>>]

\* The document saveSessionToFirestore hands to setDoc.
FirestoreDoc(userId, session, t) ==
    LET rest == Without(session, {"id", "xmlSnapshots"})
        data == [userId |-> userId,
                 thumbnailDataUrl |-> Coalesce(Field(rest, "thumbnailDataUrl"), Null),
                 diagramHistory |-> Coalesce(Field(rest, "diagramHistory"), Null),
                 xmlSnapshots |-> SerializeSnapshots(session.xmlSnapshots),
                 updatedAt |-> t] @@ rest
    IN  [k \in DOMAIN data |->
            CASE k = "messages" -> [i \in 1..Len(data[k]) |-> SanitizeMessage(data[k][i])]
              [] k \in {"title", "thumbnailDataUrl", "diagramHistory"} -> SanitizeLeaf(data[k])
              [] OTHER -> data[k]]

\* The session getSessionFromFirestore builds from a document snapshot.
SessionFromDoc(docId, data) ==
    [id |-> docId, xmlSnapshots |-> DeserializeSnapshots(data.xmlSnapshots)]
        @@ Without(data, {"xmlSnapshots"})

\* The metadata getSessionsMetadataFromFirestore pushes for one document.
MetadataFromDoc(docId, data) ==
    [id |-> docId, title |-> data.title, createdAt |-> data.createdAt,
     updatedAt |-> data.updatedAt,
     messageCount |-> IF "messages" \in DOMAIN data THEN Len(data.messages) ELSE 0,
     hasDiagram |-> HasDiagram(data.diagramXml),
     thumbnailDataUrl |-> Field(data, "thumbnailDataUrl")]

\* The metadata getAllSessionMetadata returns for one stored session.
MetadataOf(s) ==
    [id |-> s.id, title |-> s.title, createdAt |-> s.createdAt,
     updatedAt |-> s.updatedAt, messageCount |-> Len(s.messages),
     hasDiagram |-> HasDiagram(s.diagramXml),
     thumbnailDataUrl |-> Field(s, "thumbnailDataUrl")]

\* orderBy("updatedAt", "desc")
RECURSIVE SortByUpdatedDesc(_)
SortByUpdatedDesc(S) ==
    IF S = {} THEN <<>>
    ELSE LET m == CHOOSE x \in S : \A y \in S : x.updatedAt >= y.updatedAt
         IN  <<m>> \o SortByUpdatedDesc(S \ {m})

\* The plain projection switchSession returns.
SessionDataOf(s) ==
    [messages |-> s.messages, xmlSnapshots |-> s.xmlSnapshots,
     diagramXml |-> s.diagramXml,
     thumbnailDataUrl |-> Field(s, "thumbnailDataUrl"),
     diagramHistory |-> Field(s, "diagramHistory")]

\* ------------------------------------------------------------------ state

VARIABLES
    mounted,               \* the hook's mount effects have run
    user,                  \* useAuth().user: Null or UserId
    authLive,              \* auth.currentUser is set
    localAvailable,        \* isIndexedDBAvailable()
    initialSessionId,      \* the desired session id (URL param)
    sessions, currentSessionId, currentSession, isLoading, isAvailable,
    isInitializedRef, urlChangeSequenceRef,
    localStore,            \* IndexedDB: id -> ChatSession
    remoteStore,           \* drawio/<uid>/sessions: id -> document
    migrated,              \* the legacy localStorage data was migrated
    now,                   \* Date.now()
    nextNew,               \* ids handed out by createEmptySession
    events,                \* external events and backend failures so far
    ops,                   \* async callbacks in flight
    ev                     \* the last step taken

vars == <<mounted, user, authLive, localAvailable, initialSessionId,
          sessions, currentSessionId, currentSession, isLoading, isAvailable,
          isInitializedRef, urlChangeSequenceRef, localStore, remoteStore,
          migrated, now, nextNew, events, ops, ev>>

envVars == <<user, authLive, localAvailable, initialSessionId>>
storeVars == <<localStore, remoteStore, migrated>>
curVars == <<currentSessionId, currentSession>>
refVars == <<isInitializedRef, urlChangeSequenceRef>>

\* Sessions the stores hold at start.
SessionA ==
    [id |-> "a", title |-> "hello", messages |-> <<M1>>,
     xmlSnapshots |-> <<<<1, "s1">>>>, diagramXml |-> Xml1,
     thumbnailDataUrl |-> "t0", createdAt |-> 1, updatedAt |-> 1]
SessionB ==
    [id |-> "b", title |-> DefaultTitle, messages |-> <<>>,
     xmlSnapshots |-> <<>>, diagramXml |-> <<>>,
     createdAt |-> 2, updatedAt |-> 2]

Slots == 1..(2 * MaxEvents + 2)

Trusted(u) == u # Null /\ authLive

BackendFor(u) == IF Trusted(u) THEN Remote ELSE Local

\* getSession / getSessionFromFirestore on stores ls (local) and rs (remote).
StoredSessionIn(ls, rs, backend, id) ==
    IF backend = Remote
    THEN IF id \in DOMAIN rs THEN SessionFromDoc(id, rs[id]) ELSE NoSession
    ELSE IF id \in DOMAIN ls THEN ls[id] ELSE NoSession

\* getAllSessionMetadata / getSessionsMetadataFromFirestore on stores ls and rs.
StoredMetadataIn(ls, rs, backend) ==
    IF backend = Remote
    THEN SortByUpdatedDesc({MetadataFromDoc(i, rs[i]) : i \in DOMAIN rs})
    ELSE SortByUpdatedDesc({MetadataOf(ls[i]) : i \in DOMAIN ls})

StoredSession(backend, id) == StoredSessionIn(localStore, remoteStore, backend, id)

StoredMetadata(backend) == StoredMetadataIn(localStore, remoteStore, backend)

NoOp ==
    [n |-> 0, kind |-> "none", pc |-> "none", user |-> Null, id |-> Null,
     seq |-> 0, sess |-> NoSession, was |-> FALSE, backend |-> Local,
     got |-> NoSession, list |-> <<>>, saved |-> "none", wrote |-> Null, at |-> 0]

FreeSlot(used) == CHOOSE k \in Slots : k \notin used /\ \A j \in Slots : j < k => j \in used

UsedSlots == {o.n : o \in ops}

Event(what, op, outcome, ret) ==
    [what |-> what, op |-> op, outcome |-> outcome, ret |-> ret]

Void == [void |-> TRUE]

\* A read issued on `backend` when the stores are ls and rs: the op waits
\* with the answer the stores give at that moment.
AwaitGetIn(op, pc, backend, id, ls, rs) ==
    [op EXCEPT !.pc = pc, !.backend = backend, !.got = StoredSessionIn(ls, rs, backend, id)]

AwaitListIn(op, pc, backend, ls, rs) ==
    [op EXCEPT !.pc = pc, !.backend = backend, !.list = StoredMetadataIn(ls, rs, backend)]

AwaitGet(op, pc, backend, id) == AwaitGetIn(op, pc, backend, id, localStore, remoteStore)

AwaitList(op, pc, backend) == AwaitListIn(op, pc, backend, localStore, remoteStore)

\* A write issued on `backend` at time t.
AwaitWrite(op, pc, backend, t) == [op EXCEPT !.pc = pc, !.backend = backend, !.at = t]

Init ==
    /\ mounted = FALSE
    /\ authLive \in BOOLEAN
    /\ user = IF authLive THEN UserId ELSE Null
    /\ localAvailable \in BOOLEAN
    /\ initialSessionId \in TargetIds \cup {Null}
    /\ sessions = <<>>
    /\ currentSessionId = Null
    /\ currentSession = NoSession
    /\ isLoading = TRUE
    /\ isAvailable = FALSE
    /\ isInitializedRef = FALSE
    /\ urlChangeSequenceRef = 0
    /\ localStore = IF localAvailable THEN ("a" :> SessionA) ELSE <<>>
    /\ remoteStore = ("a" :> FirestoreDoc(UserId, SessionA, 1))
                        @@ ("b" :> FirestoreDoc(UserId, SessionB, 2))
    /\ migrated = FALSE
    /\ now = 3
    /\ nextNew = 1
    /\ events = 0
    /\ ops = {}
    /\ ev = Event("construct", NoOp, "ok", Void)

\* ------------------------------------------------- effects of the hook

\* init() up to its first await (lines 108-137): migration when there is no
\* user, else the metadata list of the backend chosen.
InitStart(op, u) ==
    IF u = Null THEN AwaitWrite(op, "migrate", Local, now)
    ELSE AwaitList(op, "list", BackendFor(u))

\* handleSessionIdChange up to its await (lines 186-202).
UrlLoad(n, u, d, seq) ==
    AwaitGet([NoOp EXCEPT !.n = n, !.kind = "url", !.user = u, !.id = d, !.seq = seq],
             "load", BackendFor(u), d)

\* The handler without its sequence guard.
UrlStaleNever(op) == FALSE

\* The sequence guard of handleSessionIdChange (line 206): the load is dropped.
UrlStale(op) == op.seq # urlChangeSequenceRef

\* An init effect with no guard: init() starts on every render whose
\* dependencies changed.
InitRunsOnEveryRender(userChanged, ref) == TRUE

\* Whether init() starts in a render (lines 98-105): the first effect clears
\* isInitializedRef when the user changed, and the second starts init()
\* unless the ref is set.
InitRuns(userChanged, ref) == ~(IF userChanged THEN FALSE ELSE ref)

\* The effects of one render with user u and desired id d (lines 98-227):
\* the init effect (when the user changed), then the desired-id effect
\* with the render's isAvailable, and once more when init changed isAvailable.
Effects(u, d, userChanged) ==
    LET runInit == InitRuns(userChanged, isInitializedRef)
        avail1 == IF runInit THEN ~(u = Null /\ ~localAvailable) ELSE isAvailable
        ref1 == IF runInit THEN TRUE ELSE isInitializedRef
        initOps == IF runInit /\ avail1
                   THEN {InitStart([NoOp EXCEPT !.n = FreeSlot(UsedSlots), !.kind = "init",
                                                !.user = u, !.id = d], u)}
                   ELSE {}
        load == ref1 /\ (isAvailable \/ avail1)
        seq1 == IF load THEN urlChangeSequenceRef + 1 ELSE urlChangeSequenceRef
        urlOps == IF load /\ d # Null
                  THEN {UrlLoad(FreeSlot(UsedSlots \cup {o.n : o \in initOps}), u, d, seq1)}
                  ELSE {}
    IN  /\ isInitializedRef' = ref1
        /\ isAvailable' = avail1
        /\ isLoading' = (IF runInit THEN avail1 ELSE isLoading)
        /\ urlChangeSequenceRef' = seq1
        /\ ops' = ops \cup initOps \cup urlOps

Mount ==
    /\ ~mounted
    /\ mounted' = TRUE
    /\ Effects(user, initialSessionId, TRUE)
    /\ ev' = Event("mount", NoOp, "ok", [init |-> InitRuns(TRUE, isInitializedRef)])
    /\ UNCHANGED <<envVars, sessions, curVars, storeVars, now, nextNew, events>>

Budget ==
    /\ mounted
    /\ events < MaxEvents
    /\ Cardinality(ops) < MaxOps
    /\ events' = events + 1
    /\ now' = now + 1

\* auth.currentUser is set by a sign-in and cleared by a sign-out or expiry.
AuthFlip ==
    /\ Budget
    /\ authLive' = ~authLive
    /\ ev' = Event("auth", NoOp, "ok", Void)
    /\ UNCHANGED <<mounted, user, localAvailable, initialSessionId, sessions, curVars,
                   isLoading, isAvailable, refVars, storeVars, nextNew, ops>>

\* onAuthStateChanged -> setUser: the hook renders with the new user.
AuthStateChanged ==
    /\ mounted
    /\ user # (IF authLive THEN UserId ELSE Null)
    /\ user' = (IF authLive THEN UserId ELSE Null)
    /\ Effects(user', initialSessionId, TRUE)
    /\ ev' = Event("user", NoOp, "ok", [init |-> InitRuns(TRUE, isInitializedRef)])
    /\ UNCHANGED <<mounted, authLive, localAvailable, initialSessionId, sessions, curVars,
                   storeVars, now, nextNew, events>>

\* The desired session id changes: the hook renders with the new id.
UrlChange(d) ==
    /\ Budget
    /\ d # initialSessionId
    /\ initialSessionId' = d
    /\ Effects(user, d, FALSE)
    /\ ev' = Event("url", [NoOp EXCEPT !.id = d], "ok",
                   [init |-> InitRuns(FALSE, isInitializedRef)])
    /\ UNCHANGED <<mounted, user, authLive, localAvailable, sessions, curVars,
                   storeVars, nextNew>>

\* ------------------------------------------------------------- the calls

\* The data the caller saves: nothing yet (whitespace diagram, thumbnail
\* cleared, history absent), and a chat of two messages with snapshots.
Data0 ==
    [messages |-> <<>>, xmlSnapshots |-> <<>>, diagramXml |-> Blank,
     thumbnailDataUrl |-> Null, diagramHistory |-> Undefined]
Data1 ==
    [messages |-> <<M2, M3>>, xmlSnapshots |-> <<<<2, "s2">>, <<1, "s1">>>>,
     diagramXml |-> Xml2, thumbnailDataUrl |-> "t1", diagramHistory |-> "h1"]
DataSet == {Data0, Data1}
ForIds == {Undefined, Null, "a"}

CallOp(kind, id) ==
    [NoOp EXCEPT !.n = FreeSlot(UsedSlots), !.kind = kind, !.user = user, !.id = id]

\* The save-before-switch of any current session, empty or not.
SaveBeforeSwitchAlways(cur) == cur # NoSession

\* switchSession: whether the outgoing session is saved first (line 244).
SaveBeforeSwitch(cur) == cur # NoSession /\ Len(cur.messages) > 0

\* switchSession up to its first await (lines 240-270), called at time now'.
SwitchStart(op) ==
    IF SaveBeforeSwitch(currentSession)
    THEN AwaitWrite([op EXCEPT !.sess = currentSession], "save", BackendFor(op.user), now')
    ELSE AwaitGet([op EXCEPT !.sess = currentSession, !.saved = "skipped", !.at = now'],
                  "load", BackendFor(op.user), op.id)

switchSession(id) ==
    /\ Budget
    /\ IF id = currentSessionId
       THEN /\ ops' = ops
            /\ ev' = Event("switch.same", CallOp("switch", id), "ok", NoSession)
       ELSE /\ ops' = ops \cup {SwitchStart(CallOp("switch", id))}
            /\ ev' = Event("switch.call", SwitchStart(CallOp("switch", id)), "ok", Void)
    /\ UNCHANGED <<mounted, envVars, sessions, curVars, isLoading, isAvailable, refVars,
                   storeVars, nextNew>>

\* A deleteSession that takes every id for the current one.
wasCurrentSessionAlways(id, curId) == TRUE

\* deleteSession's wasCurrentSession (line 295).
wasCurrentSession(id, curId) == id = curId

deleteSession(id) ==
    /\ Budget
    /\ LET op == AwaitWrite([CallOp("delete", id) EXCEPT
                                !.was = wasCurrentSession(id, currentSessionId)],
                            "delete", BackendFor(user), now')
       IN  /\ ops' = ops \cup {op}
           /\ ev' = Event("delete.call", op, "ok", Void)
    /\ UNCHANGED <<mounted, envVars, sessions, curVars, isLoading, isAvailable, refVars,
                   storeVars, nextNew>>

\* refreshSessions up to its await (lines 80-90); Null when it awaits nothing.
RefreshBackend(u) ==
    IF Trusted(u) THEN Remote ELSE IF localAvailable THEN Local ELSE Null

refreshSessions ==
    /\ Budget
    /\ LET b == RefreshBackend(user)
           op == AwaitList(CallOp("refresh", Null), "refresh", b)
       IN  IF b = Null
           THEN /\ ops' = ops
                /\ ev' = Event("refresh.none", CallOp("refresh", Null), "ok", Void)
           ELSE /\ ops' = ops \cup {op}
                /\ ev' = Event("refresh.call", op, "ok", Void)
    /\ UNCHANGED <<mounted, envVars, sessions, curVars, isLoading, isAvailable, refVars,
                   storeVars, nextNew>>

\* A clear that spares a session with messages.
ClearedSessionUnlessChat(cur) ==
    IF cur # NoSession /\ Len(cur.messages) > 0 THEN cur ELSE NoSession

\* setCurrentSession(null) (line 420), whatever the current session is.
ClearedSession(cur) == NoSession

clearCurrentSession ==
    /\ Budget
    /\ currentSession' = ClearedSession(currentSession)
    /\ currentSessionId' = Null
    /\ ev' = Event("clear", NoOp, "ok", Void)
    /\ UNCHANGED <<mounted, envVars, sessions, isLoading, isAvailable, refVars,
                   storeVars, nextNew, ops>>

\* The guard with a null forSessionId taken for an absent one.
SaveDiscardedUnlessNull(forSessionId, curId) ==
    forSessionId # Undefined /\ forSessionId # Null /\ forSessionId # curId

\* saveCurrentSession's guard (lines 329-334): the save is discarded.
SaveDiscarded(forSessionId, curId) ==
    forSessionId # Undefined /\ forSessionId # curId

\* The creation branch with the template spread over the data.
NewSessionTemplateLast(newId, data, t) ==
    createEmptySession(newId, t)
        @@ [messages |-> data.messages, xmlSnapshots |-> data.xmlSnapshots,
            diagramXml |-> data.diagramXml, thumbnailDataUrl |-> data.thumbnailDataUrl,
            diagramHistory |-> data.diagramHistory, title |-> extractTitle(data.messages)]

\* The session the creation branch builds (lines 338-346).
NewSession(newId, data, t) ==
    [messages |-> data.messages, xmlSnapshots |-> data.xmlSnapshots,
     diagramXml |-> data.diagramXml, thumbnailDataUrl |-> data.thumbnailDataUrl,
     diagramHistory |-> data.diagramHistory, title |-> extractTitle(data.messages)]
        @@ createEmptySession(newId, t)

\* The title derived again whenever the save carries messages.
UpdatedTitleRederived(cur, data) ==
    IF Len(data.messages) > 0 THEN extractTitle(data.messages) ELSE cur.title

\* The title of an updated session (lines 378-382).
UpdatedTitle(cur, data) ==
    IF cur.title = DefaultTitle /\ Len(data.messages) > 0
    THEN extractTitle(data.messages) ELSE cur.title

\* The session the update branch builds (lines 367-383).
UpdatedSession(cur, data, t) ==
    [messages |-> data.messages, xmlSnapshots |-> data.xmlSnapshots,
     diagramXml |-> data.diagramXml,
     thumbnailDataUrl |-> Coalesce(data.thumbnailDataUrl, Field(cur, "thumbnailDataUrl")),
     diagramHistory |-> Coalesce(data.diagramHistory, Field(cur, "diagramHistory")),
     updatedAt |-> t, title |-> UpdatedTitle(cur, data)]
        @@ cur

saveCurrentSession(data, forSessionId) ==
    /\ Budget
    /\ IF SaveDiscarded(forSessionId, currentSessionId)
       THEN /\ ops' = ops
            /\ nextNew' = nextNew
            /\ ev' = Event("save.discarded", CallOp("save", forSessionId), "ok", Void)
       ELSE IF currentSession = NoSession
       THEN /\ nextNew <= Len(NewIds)
            /\ nextNew' = nextNew + 1
            /\ LET op == AwaitWrite([CallOp("save", forSessionId) EXCEPT
                                        !.sess = NewSession(NewIds[nextNew], data, now')],
                                    "create", BackendFor(user), now')
               IN  /\ ops' = ops \cup {op}
                   /\ ev' = Event("save.call", op, "ok", data)
       ELSE /\ nextNew' = nextNew
            /\ LET op == AwaitWrite([CallOp("save", forSessionId) EXCEPT
                                        !.sess = UpdatedSession(currentSession, data, now')],
                                    "update", BackendFor(user), now')
               IN  /\ ops' = ops \cup {op}
                   /\ ev' = Event("save.call", op, "ok", data)
    /\ UNCHANGED <<mounted, envVars, sessions, curVars, isLoading, isAvailable, refVars,
                   storeVars>>

\* ------------------------------------------------------ backend answers

\* The retention limit of the local store (scaled down).
MAX_SESSIONS == 3

\* A local call when IndexedDB is not available cannot succeed: the adapter
\* rejects ("error") or resolves having done nothing ("unavailable").
Forced(op) == op.backend = Local /\ ~localAvailable

WriteFailures(op) ==
    IF op.backend = Remote THEN {"permission-denied", "error"} ELSE {"error"}

ReadFailures(op) ==
    IF op.backend = Remote THEN {"permission-denied", "error"} ELSE {"error"}

Outcomes(op, failures) ==
    IF Forced(op) THEN {"error", "unavailable"}
    ELSE {"ok"} \cup (IF events < MaxEvents THEN failures ELSE {})

Charge(op, outcome) ==
    events' = (IF outcome = "ok" \/ Forced(op) THEN events ELSE events + 1)

\* A saveSessionToFirestore that swallows every failure, as the reads do.
saveSessionToFirestoreSwallows(outcome) == FALSE

\* What each remote adapter function does with a failure of its Firestore
\* call: whether it is rethrown to the caller. saveSessionToFirestore logs
\* and rethrows (lines 507-510).
saveSessionToFirestoreThrows(outcome) == outcome \in {"permission-denied", "error"}

\* getSessionFromFirestore logs and returns null (lines 542-545).
getSessionFromFirestoreThrows(outcome) == FALSE

\* getSessionsMetadataFromFirestore logs and returns [] (lines 571-574).
getSessionsMetadataFromFirestoreThrows(outcome) == FALSE

\* deleteSessionFromFirestore logs and rethrows (lines 590-593).
deleteSessionFromFirestoreThrows(outcome) == outcome \in {"permission-denied", "error"}

\* The remote adapter function behind each await of an operation.
RemoteThrows(pc, outcome) ==
    CASE pc \in {"save", "create", "update"} -> saveSessionToFirestoreThrows(outcome)
      [] pc = "delete" -> deleteSessionFromFirestoreThrows(outcome)
      [] pc = "load" -> getSessionFromFirestoreThrows(outcome)
      [] OTHER -> getSessionsMetadataFromFirestoreThrows(outcome)

\* A controller that carries on after any failed write.
WriteProceedsAlways(op, outcome) == TRUE

\* A controller that rethrows every failure of a write, permission-denied
\* included.
WriteProceedsOnlyOk(op, outcome) == outcome \in {"ok", "unavailable"}

\* The controller's catch around a remote write: permission-denied is
\* swallowed, everything else is rethrown; a local write has no catch.
WriteProceeds(op, outcome) ==
    IF op.backend = Remote
    THEN ~RemoteThrows(op.pc, outcome) \/ outcome = "permission-denied"
    ELSE outcome \in {"ok", "unavailable"}

\* getSession / getSessionFromFirestore resolve: the remote adapter turns
\* every failure into null (lines 542-545); a local failure is thrown.
GetAnswers(op, outcome) ==
    IF outcome = "ok" THEN {op.got, StoredSession(op.backend, op.id)}
    ELSE {NoSession}

GetThrows(op, outcome) ==
    outcome = "error" /\ (op.backend = Local \/ RemoteThrows(op.pc, outcome))

\* getAllSessionMetadata / getSessionsMetadataFromFirestore resolve: the
\* remote adapter turns every failure into [] (lines 571-574).
ListAnswers(op, outcome) ==
    IF outcome = "ok" THEN {op.list, StoredMetadata(op.backend)}
    ELSE {<<>>}

ListThrows(op, outcome) ==
    outcome = "error" /\ (op.backend = Local \/ RemoteThrows(op.pc, outcome))

RemoveKey(store, id) == [i \in DOMAIN store \ {id} |-> store[i]]

\* saveSession / saveSessionToFirestore commit.
LocalAfterSave(op, outcome) ==
    IF outcome = "ok" /\ op.backend = Local
    THEN (op.sess.id :> op.sess) @@ localStore ELSE localStore

RemoteAfterSave(op, outcome) ==
    IF outcome = "ok" /\ op.backend = Remote
    THEN (op.sess.id :> FirestoreDoc(op.user, op.sess, op.at)) @@ remoteStore
    ELSE remoteStore

\* deleteSession / deleteSessionFromFirestore commit.
LocalAfterDelete(op, outcome) ==
    IF outcome = "ok" /\ op.backend = Local THEN RemoveKey(localStore, op.id) ELSE localStore

RemoteAfterDelete(op, outcome) ==
    IF outcome = "ok" /\ op.backend = Remote THEN RemoveKey(remoteStore, op.id) ELSE remoteStore

\* enforceSessionLimit: the oldest sessions by updatedAt go until the count
\* is at most MAX_SESSIONS.
RECURSIVE EnforceLimit(_)
EnforceLimit(store) ==
    IF Cardinality(DOMAIN store) <= MAX_SESSIONS THEN store
    ELSE LET oldest == CHOOSE i \in DOMAIN store :
                          \A j \in DOMAIN store : store[i].updatedAt <= store[j].updatedAt
         IN  EnforceLimit(RemoveKey(store, oldest))

\* migrateFromLocalStorage: the legacy session is copied once.
Migrate(store) == IF migrated THEN store ELSE store @@ ("b" :> SessionB)

\* The op after its write resolved: what came of the write and where it went.
Written(op, outcome) ==
    [op EXCEPT !.saved = outcome,
               !.wrote = IF outcome = "ok" THEN op.backend ELSE Null]

Replace(op, op2) == ops' = (ops \ {op}) \cup {op2}

Finish(op) == ops' = ops \ {op}

\* ------------------------------------------------------------------ init

\* An init whose setIsLoading(false) is the last statement of the try block.
InitCleanupUnlessThrown(threw, loading) == IF threw THEN loading ELSE FALSE

\* isLoading when init() is over (lines 164-169): the finally block runs
\* whether or not the try block threw.
InitCleanup(threw, loading) == FALSE

InitMigrateDone ==
    \E op \in ops : \E outcome \in Outcomes(op, {"error"}) :
        /\ op.kind = "init" /\ op.pc = "migrate"
        /\ Charge(op, outcome)
        /\ IF outcome = "ok"
           THEN /\ localStore' = Migrate(localStore)
                /\ migrated' = TRUE
                /\ Replace(op, AwaitListIn(op, "list", BackendFor(op.user),
                                           localStore', remoteStore))
                /\ isLoading' = isLoading
           ELSE /\ UNCHANGED <<localStore, migrated>>
                /\ Finish(op)
                /\ isLoading' = InitCleanup(TRUE, isLoading)
        /\ ev' = Event("init.migrated", op, outcome, Void)
        /\ UNCHANGED <<mounted, envVars, sessions, curVars, isAvailable, refVars,
                       remoteStore, now, nextNew>>

InitListDone ==
    \E op \in ops : \E outcome \in Outcomes(op, ReadFailures(op)) :
        /\ op.kind = "init" /\ op.pc = "list"
        /\ Charge(op, outcome)
        /\ IF ListThrows(op, outcome)
           THEN /\ sessions' = sessions
                /\ Finish(op)
                /\ isLoading' = InitCleanup(TRUE, isLoading)
           ELSE /\ sessions' \in ListAnswers(op, outcome)
                /\ IF op.id # Null
                   THEN /\ Replace(op, AwaitGet(op, "load", BackendFor(op.user), op.id))
                        /\ isLoading' = isLoading
                   ELSE /\ Finish(op)
                        /\ isLoading' = InitCleanup(FALSE, isLoading)
        /\ ev' = Event("init.listed", op, outcome, Void)
        /\ UNCHANGED <<mounted, envVars, curVars, isAvailable, refVars, storeVars, now, nextNew>>

InitLoadDone ==
    \E op \in ops : \E outcome \in Outcomes(op, ReadFailures(op)) :
        \E session \in GetAnswers(op, outcome) :
        /\ op.kind = "init" /\ op.pc = "load"
        /\ Charge(op, outcome)
        /\ IF ~GetThrows(op, outcome) /\ session # NoSession
           THEN /\ currentSession' = session
                /\ currentSessionId' = session.id
           ELSE UNCHANGED curVars
        /\ Finish(op)
        /\ isLoading' = InitCleanup(GetThrows(op, outcome), isLoading)
        /\ ev' = Event("init.loaded", op, outcome, session)
        /\ UNCHANGED <<mounted, envVars, sessions, isAvailable, refVars, storeVars, now, nextNew>>

\* --------------------------------------------------- desired-id handler

\* A handler that applies whatever the load returned, found or not.
UrlAppliesAnything(session, cur) == cur # session.id

\* A handler that applies every session found, the current one included.
UrlAppliesFound(session, cur) == session # NoSession

\* Whether the handler applies a loaded session (lines 210-218): it was
\* found and is not the current one.
UrlApplies(session, cur) == session # NoSession /\ cur # session.id

UrlLoadDone ==
    \E op \in ops : \E outcome \in Outcomes(op, ReadFailures(op)) :
        \E session \in GetAnswers(op, outcome) :
        /\ op.kind = "url" /\ op.pc = "load"
        /\ Charge(op, outcome)
        /\ IF /\ ~GetThrows(op, outcome)
              /\ ~UrlStale(op)
              /\ UrlApplies(session, currentSessionId)
           THEN /\ currentSession' = session
                /\ currentSessionId' = session.id
           ELSE UNCHANGED curVars
        /\ Finish(op)
        /\ ev' = Event("url.loaded", op, outcome, session)
        /\ UNCHANGED <<mounted, envVars, sessions, isLoading, isAvailable, refVars,
                       storeVars, now, nextNew>>

\* ---------------------------------------------------------- switchSession

SwitchSaveDone ==
    \E op \in ops : \E outcome \in Outcomes(op, WriteFailures(op)) :
        /\ op.kind = "switch" /\ op.pc = "save"
        /\ Charge(op, outcome)
        /\ localStore' = LocalAfterSave(op, outcome)
        /\ remoteStore' = RemoteAfterSave(op, outcome)
        /\ IF WriteProceeds(op, outcome)
           THEN Replace(op, AwaitGetIn(Written(op, outcome), "load",
                                       BackendFor(op.user), op.id, localStore', remoteStore'))
           ELSE Finish(op)
        /\ ev' = Event("switch.saved", op, outcome, Void)
        /\ UNCHANGED <<mounted, envVars, sessions, curVars, isLoading, isAvailable,
                       refVars, migrated, now, nextNew>>

\* A switchSession that takes every answer of the load for a session.
SwitchFoundAlways(session) == TRUE

\* switchSession's test of what the load returned (lines 272-275).
SwitchFound(session) == session # NoSession

SwitchLoadDone ==
    \E op \in ops : \E outcome \in Outcomes(op, ReadFailures(op)) :
        \E session \in GetAnswers(op, outcome) :
        /\ op.kind = "switch" /\ op.pc = "load"
        /\ Charge(op, outcome)
        /\ IF ~GetThrows(op, outcome) /\ SwitchFound(session)
           THEN /\ currentSession' = session
                /\ currentSessionId' = session.id
           ELSE UNCHANGED curVars
        /\ ev' = Event("switch.done", op, outcome,
                       IF ~GetThrows(op, outcome) /\ session # NoSession
                       THEN SessionDataOf(session) ELSE NoSession)
        /\ Finish(op)
        /\ UNCHANGED <<mounted, envVars, sessions, isLoading, isAvailable, refVars,
                       storeVars, now, nextNew>>

\* ----------------------------------------------------- saveCurrentSession

\* `await refreshSessions()` of an op at the end of save and delete: the op
\* waits for the list, or is done when refreshSessions awaits nothing.
RefreshOrDone(op, old, ls, rs, what, outcome, ret) ==
    IF RefreshBackend(op.user) = Null
    THEN /\ Finish(old)
         /\ ev' = Event(what \o ".done", op, outcome, ret)
    ELSE /\ Replace(old, AwaitListIn(op, "refresh", RefreshBackend(op.user), ls, rs))
         /\ ev' = Event(what \o ".stored", op, outcome, ret)

\* Creation branch, the backend write resolves (lines 348-362).
SaveCreateDone ==
    \E op \in ops : \E outcome \in Outcomes(op, WriteFailures(op)) :
        /\ op.kind = "save" /\ op.pc = "create"
        /\ Charge(op, outcome)
        /\ localStore' = LocalAfterSave(op, outcome)
        /\ remoteStore' = RemoteAfterSave(op, outcome)
        /\ IF ~WriteProceeds(op, outcome)
           THEN /\ Finish(op)
                /\ ev' = Event("save.threw", op, outcome, Void)
                /\ UNCHANGED curVars
           ELSE IF op.backend = Local
           THEN /\ Replace(op, AwaitWrite(Written(op, outcome), "limit", Local, now))
                /\ ev' = Event("save.written", op, outcome, Void)
                /\ UNCHANGED curVars
           ELSE /\ currentSession' = op.sess
                /\ currentSessionId' = op.sess.id
                /\ RefreshOrDone(Written(op, outcome), op, localStore', remoteStore',
                                 "save", outcome, Void)
        /\ UNCHANGED <<mounted, envVars, sessions, isLoading, isAvailable, refVars,
                       migrated, now, nextNew>>

\* A creation branch that never runs the retention pass.
LimitedStoreSkipped(store, outcome) == store

\* The local store after `await enforceSessionLimit()` (line 357).
LimitedStore(store, outcome) ==
    IF outcome = "ok" THEN EnforceLimit(store) ELSE store

\* A retention pass whose failure rejects the save.
LimitProceedsOnlyOk(outcome) == outcome # "error"

\* enforceSessionLimit never rejects: its failure is its own and does not
\* fail the save.
LimitProceeds(outcome) == TRUE

\* Creation branch on the local backend, enforceSessionLimit resolves
\* (lines 357-362).
SaveLimitDone ==
    \E op \in ops : \E outcome \in Outcomes(op, {"error"}) :
        /\ op.kind = "save" /\ op.pc = "limit"
        /\ Charge(op, outcome)
        /\ localStore' = LimitedStore(localStore, outcome)
        /\ IF LimitProceeds(outcome)
           THEN /\ currentSession' = op.sess
                /\ currentSessionId' = op.sess.id
                /\ RefreshOrDone(op, op, localStore', remoteStore, "save", outcome, Void)
           ELSE /\ Finish(op)
                /\ ev' = Event("save.threw", op, outcome, Void)
                /\ UNCHANGED curVars
        /\ UNCHANGED <<mounted, envVars, sessions, isLoading, isAvailable, refVars,
                       remoteStore, migrated, now, nextNew>>

\* The in-place update of the metadata list (lines 398-413).
UpdateMetadata(prev, updated) ==
    [i \in 1..Len(prev) |->
        IF prev[i].id = updated.id
        THEN [title |-> updated.title, updatedAt |-> updated.updatedAt,
              messageCount |-> Len(updated.messages),
              hasDiagram |-> HasDiagram(updated.diagramXml),
              thumbnailDataUrl |-> Field(updated, "thumbnailDataUrl")] @@ prev[i]
        ELSE prev[i]]

\* Update branch, the backend write resolves (lines 385-413).
SaveUpdateDone ==
    \E op \in ops : \E outcome \in Outcomes(op, WriteFailures(op)) :
        /\ op.kind = "save" /\ op.pc = "update"
        /\ Charge(op, outcome)
        /\ localStore' = LocalAfterSave(op, outcome)
        /\ remoteStore' = RemoteAfterSave(op, outcome)
        /\ IF ~WriteProceeds(op, outcome)
           THEN /\ ev' = Event("save.threw", op, outcome, Void)
                /\ UNCHANGED <<currentSession, sessions>>
           ELSE /\ currentSession' = op.sess
                /\ sessions' = UpdateMetadata(sessions, op.sess)
                /\ ev' = Event("save.done", Written(op, outcome), outcome, Void)
        /\ Finish(op)
        /\ UNCHANGED <<mounted, envVars, currentSessionId, isLoading, isAvailable, refVars,
                       migrated, now, nextNew>>

\* ---------------------------------------------------------- deleteSession

\* The backend delete resolves (lines 297-313).
DeleteDone ==
    \E op \in ops : \E outcome \in Outcomes(op, WriteFailures(op)) :
        /\ op.kind = "delete" /\ op.pc = "delete"
        /\ Charge(op, outcome)
        /\ localStore' = LocalAfterDelete(op, outcome)
        /\ remoteStore' = RemoteAfterDelete(op, outcome)
        /\ IF ~WriteProceeds(op, outcome)
           THEN /\ Finish(op)
                /\ ev' = Event("delete.threw", op, outcome, Void)
                /\ UNCHANGED curVars
           ELSE /\ IF op.was
                   THEN /\ currentSession' = NoSession
                        /\ currentSessionId' = Null
                   ELSE UNCHANGED curVars
                /\ RefreshOrDone(Written(op, outcome), op, localStore', remoteStore',
                                 "delete", outcome, [wasCurrentSession |-> op.was])
        /\ UNCHANGED <<mounted, envVars, sessions, isLoading, isAvailable, refVars,
                       migrated, now, nextNew>>

\* --------------------------------------------------------- refreshSessions

\* The list read of refreshSessions resolves (lines 82-94), for a call of its
\* own and at the end of save and delete; a failure is swallowed.
RefreshDone ==
    \E op \in ops : \E outcome \in Outcomes(op, ReadFailures(op)) :
        /\ op.pc = "refresh"
        /\ Charge(op, outcome)
        /\ IF ListThrows(op, outcome)
           THEN sessions' = sessions
           ELSE sessions' \in ListAnswers(op, outcome)
        /\ Finish(op)
        /\ ev' = Event(op.kind \o ".done", op, outcome,
                       IF op.kind = "delete" THEN [wasCurrentSession |-> op.was] ELSE Void)
        /\ UNCHANGED <<mounted, envVars, curVars, isLoading, isAvailable, refVars,
                       storeVars, now, nextNew>>

\* ------------------------------------------------------------ the system

Next ==
    \/ Mount
    \/ AuthFlip
    \/ AuthStateChanged
    \/ \E d \in TargetIds \cup {Null} : UrlChange(d)
    \/ \E id \in TargetIds : switchSession(id)
    \/ \E id \in TargetIds : deleteSession(id)
    \/ \E data \in DataSet : \E forSessionId \in ForIds : saveCurrentSession(data, forSessionId)
    \/ refreshSessions
    \/ clearCurrentSession
    \/ InitMigrateDone
    \/ InitListDone
    \/ InitLoadDone
    \/ UrlLoadDone
    \/ SwitchSaveDone
    \/ SwitchLoadDone
    \/ SaveCreateDone
    \/ SaveLimitDone
    \/ SaveUpdateDone
    \/ DeleteDone
    \/ RefreshDone

Spec == Init /\ [][Next]_vars

\* The system with one identity throughout and a backend that answers
\* every call: no sign-in, no sign-out, no failed call.
NextQuiet ==
    \/ Mount
    \/ \E d \in TargetIds \cup {Null} : UrlChange(d)
    \/ \E id \in TargetIds : switchSession(id)
    \/ \E id \in TargetIds : deleteSession(id)
    \/ \E data \in DataSet : \E forSessionId \in ForIds : saveCurrentSession(data, forSessionId)
    \/ refreshSessions
    \/ clearCurrentSession
    \/ InitMigrateDone /\ ev'.outcome = "ok"
    \/ InitListDone /\ ev'.outcome = "ok"
    \/ InitLoadDone /\ ev'.outcome = "ok"
    \/ UrlLoadDone /\ ev'.outcome = "ok"
    \/ SwitchSaveDone /\ ev'.outcome = "ok"
    \/ SwitchLoadDone /\ ev'.outcome = "ok"
    \/ SaveCreateDone /\ ev'.outcome = "ok"
    \/ SaveLimitDone /\ ev'.outcome = "ok"
    \/ SaveUpdateDone /\ ev'.outcome = "ok"
    \/ DeleteDone /\ ev'.outcome = "ok"
    \/ RefreshDone /\ ev'.outcome = "ok"

SpecQuiet == Init /\ [][NextQuiet]_vars

\* The renders and the loads they start, without the caller's operations
\* (none of which reads or writes isLoading, isAvailable or a run of init).
NextInit ==
    \/ Mount
    \/ AuthFlip
    \/ AuthStateChanged
    \/ \E d \in TargetIds \cup {Null} : UrlChange(d)
    \/ InitMigrateDone
    \/ InitListDone
    \/ InitLoadDone
    \/ UrlLoadDone

\* That system when every backend call of init() is answered: a pending
\* promise of migrateFromLocalStorage, of the list read and of the load
\* settles.
SpecInitFair ==
    /\ Init /\ [][NextInit]_vars
    /\ WF_vars(InitMigrateDone)
    /\ WF_vars(InitListDone)
    /\ WF_vars(InitLoadDone)

\* ------------------------------------------------------------ the claims

\* C1: a saveCurrentSession call whose forSessionId is given (a string or
\* null) and differs from currentSessionId at call time changes nothing: no
\* backend write is issued, no operation is started, and sessions,
\* currentSession, currentSessionId and both stores stay as they are.
C1_StaleSaveIsNoOp ==
    [][(/\ ev'.what \in {"save.call", "save.discarded"}
        /\ ev'.op.id # Undefined
        /\ ev'.op.id # currentSessionId)
       => UNCHANGED <<sessions, currentSession, currentSessionId,
                      localStore, remoteStore, ops, nextNew>>]_vars

\* A save for session "a" was discarded while another session was current.
C1_Witness ==
    /\ ev.what = "save.discarded"
    /\ ev.op.id = "a"
    /\ currentSessionId \notin {Null, "a"}

\* C2: a desired-id load whose captured sequence value differs from the
\* navigation counter when it resolves changes neither currentSession nor
\* currentSessionId; after the load that carries the counter's value and
\* finds its session, currentSessionId is that session's id.  After
\* A -> B -> C the current id is therefore C's and never B's.
C2_StaleLoadDiscarded ==
    [][ev'.what = "url.loaded" =>
          IF ev'.op.seq # urlChangeSequenceRef
          THEN UNCHANGED curVars
          ELSE ev'.ret # NoSession => currentSessionId' = ev'.op.id]_vars

\* The load for an earlier desired id found its session after a later
\* desired id had been requested and loaded: the later one stays current.
C2_Witness ==
    /\ ev.what = "url.loaded"
    /\ ev.op.seq # urlChangeSequenceRef
    /\ ev.ret # NoSession
    /\ ev.op.id # initialSessionId
    /\ initialSessionId # Null
    /\ currentSessionId = initialSessionId
    /\ ops = {}

\* ------------------------------------------------------- navigation only

\* The ids the active backend holds for the render's user.
ExistingIds == {id \in TargetIds : StoredSession(BackendFor(user), id) # NoSession}

\* The hook driven by desired-id values alone: every desired id exists in
\* the active backend when it is requested, every backend call succeeds,
\* and switch, save, delete, clear and sign-in/out are never invoked.
InitNav ==
    /\ Init
    /\ initialSessionId \in {Null} \cup ExistingIds

NextNav ==
    \/ Mount
    \/ \E d \in ExistingIds : UrlChange(d)
    \/ InitMigrateDone /\ ev'.outcome = "ok"
    \/ InitListDone /\ ev'.outcome = "ok"
    \/ InitLoadDone /\ ev'.outcome = "ok"
    \/ UrlLoadDone /\ ev'.outcome = "ok"

SpecNav == InitNav /\ [][NextNav]_vars

\* C3: with navigation alone, once every pending load has resolved the
\* current session id is the most recently requested desired id, whatever
\* the order in which the loads resolved.
C3_LatestRequestWins ==
    (mounted /\ ops = {} /\ initialSessionId # Null)
        => currentSessionId = initialSessionId

\* The load of initialize resolved after the load of a later desired id and
\* replaced the later session.
C3_Witness ==
    /\ ev.what = "init.loaded"
    /\ ev.ret # NoSession
    /\ ops = {}
    /\ initialSessionId \notin {Null, ev.op.id}
    /\ currentSessionId = ev.op.id

\* ------------------------------------------------------ the whole hook

\* C4: when the update save of session X resolves while another session Y
\* is current, currentSession is still Y's session and not X's data.
C4_SaveNeverClobbers ==
    (/\ ev.what = "save.done"
     /\ ev.op.pc = "update"
     /\ currentSessionId \notin {Null, ev.op.sess.id})
        => currentSession.id = currentSessionId

\* An update save of one session resolved while another session was
\* current, and left its own data as currentSession.
C4_Witness ==
    /\ ev.what = "save.done"
    /\ ev.op.pc = "update"
    /\ currentSessionId \notin {Null, ev.op.sess.id}
    /\ currentSession = ev.op.sess

\* C5: deleteSession(id) takes wasCurrentSession from the current id at call
\* time; when its backend delete has gone through it sets currentSession and
\* currentSessionId to null if wasCurrentSession and leaves both alone
\* otherwise; its refresh leaves both alone, and it returns the
\* wasCurrentSession it took at call time.
C5_DeletePostcondition ==
    [][/\ ev'.what = "delete.call" =>
              ev'.op.was = (ev'.op.id = currentSessionId)
       /\ (ev'.what \in {"delete.stored", "delete.done"} /\ ev'.op.pc = "delete") =>
              IF ev'.op.was
              THEN currentSession' = NoSession /\ currentSessionId' = Null
              ELSE UNCHANGED curVars
       /\ (ev'.what = "delete.done" /\ ev'.op.pc = "refresh") => UNCHANGED curVars
       /\ ev'.what = "delete.done" => ev'.ret = [wasCurrentSession |-> ev'.op.was]]_vars

\* deleteSession of the current session has completed: nothing is current
\* and it returned wasCurrentSession = true.
C5_Witness ==
    /\ ev.what = "delete.done"
    /\ ev.op.id \in StoredIds
    /\ ev.ret.wasCurrentSession
    /\ currentSession = NoSession
    /\ currentSessionId = Null

\* C6: switchSession writes the outgoing session only if it has at least one
\* message: a switch that is saving holds a session with messages, and a
\* switch from no session or from a session without messages goes to its
\* load with the save skipped.
C6_SaveOnlyWithMessages ==
    /\ \A o \in ops : (o.kind = "switch" /\ o.pc = "save") =>
            (o.sess # NoSession /\ Len(o.sess.messages) > 0)
    /\ \A o \in ops : (o.kind = "switch" /\ o.pc = "load"
                        /\ (o.sess = NoSession \/ Len(o.sess.messages) = 0)) =>
            (o.saved = "skipped" /\ o.wrote = Null)
    /\ ev.what = "switch.saved" =>
            (ev.op.sess # NoSession /\ Len(ev.op.sess.messages) > 0)

\* A switch away from a current session without messages is loading its
\* target and has saved nothing.
C6_Witness ==
    \E o \in ops :
        /\ o.kind = "switch" /\ o.pc = "load"
        /\ o.sess # NoSession
        /\ Len(o.sess.messages) = 0
        /\ o.saved = "skipped"

\* C7: within one switchSession the load is issued in the step in which the
\* save of the outgoing session completes, never before; when that save
\* fails with an unexpected error the call ends there, no load is issued and
\* the current session is unchanged.
C7_LoadAfterSave ==
    [][/\ \A o \in ops' : (o.kind = "switch" /\ o.pc = "load") =>
              o.saved \in {"skipped", "ok", "permission-denied", "unavailable"}
       /\ ev'.what = "switch.saved" =>
              /\ \E o \in ops : o = ev'.op /\ o.pc = "save"
              /\ IF ev'.outcome = "error"
                 THEN /\ \A o \in ops' : o.n # ev'.op.n
                      /\ ops' = ops \ {ev'.op}
                      /\ UNCHANGED curVars
                 ELSE \E o \in ops' : /\ o.n = ev'.op.n
                                      /\ o.pc = "load"
                                      /\ o.saved = ev'.outcome]_vars

\* The save of the outgoing session failed with an unexpected error: the
\* switch is over and the outgoing session is still current.
C7_Witness ==
    /\ ev.what = "switch.saved"
    /\ ev.outcome = "error"
    /\ currentSessionId = ev.op.sess.id
    /\ currentSessionId # ev.op.id
    /\ \A o \in ops : o.n # ev.op.n

\* The entries of a metadata list for session id.
EntriesFor(list, id) == {i \in DOMAIN list : list[i].id = id}

\* The store of a backend.
StoreOf(ls, rs, backend) == IF backend = Remote THEN rs ELSE ls

\* What a read of the backend written returns for the session of op.
AsStored(op) ==
    IF op.wrote = Remote
    THEN SessionFromDoc(op.sess.id, FirestoreDoc(op.user, op.sess, op.at))
    ELSE op.sess

\* C8: a saveCurrentSession that passes its guard with no current session
\* builds one session with a fresh id, the supplied messages and the title
\* derived from them; when its write succeeds the active backend holds that
\* session and exactly that one more; the session becomes current; and when
\* the list is read back from the backend written while it holds the session
\* as created, sessions has exactly one entry for it, with messageCount the
\* number of supplied messages.
C8_CreationPath ==
    [][/\ (ev'.what = "save.call" /\ ev'.op.pc = "create") =>
              /\ currentSession = NoSession
              /\ ev'.op.sess.id \notin DOMAIN localStore \cup DOMAIN remoteStore
              /\ ev'.op.sess.messages = ev'.ret.messages
              /\ ev'.op.sess.title = extractTitle(ev'.ret.messages)
              /\ Cardinality(ops' \ ops) = 1
       /\ (/\ ev'.what \in {"save.written", "save.stored", "save.done"}
           /\ ev'.op.pc = "create"
           /\ ev'.outcome = "ok") =>
              LET before == StoreOf(localStore, remoteStore, ev'.op.backend)
                  after == StoreOf(localStore', remoteStore', ev'.op.backend)
                  stored == StoredSessionIn(localStore', remoteStore',
                                            ev'.op.backend, ev'.op.sess.id)
              IN  /\ ev'.op.sess.id \notin DOMAIN before
                  /\ DOMAIN after = DOMAIN before \cup {ev'.op.sess.id}
                  /\ \A i \in DOMAIN before : after[i] = before[i]
                  /\ Len(stored.messages) = Len(ev'.op.sess.messages)
                  /\ \A i \in DOMAIN stored.messages :
                        /\ stored.messages[i].role = ev'.op.sess.messages[i].role
                        /\ stored.messages[i].content = ev'.op.sess.messages[i].content
                  /\ stored.title = extractTitle(ev'.op.sess.messages)
       /\ (ev'.what \in {"save.stored", "save.done"} /\ ev'.op.pc \in {"create", "limit"}) =>
              /\ currentSession' = ev'.op.sess
              /\ currentSessionId' = ev'.op.sess.id
       /\ (/\ ev'.what = "save.done"
           /\ ev'.op.pc = "refresh"
           /\ ev'.outcome = "ok"
           /\ ev'.op.wrote = ev'.op.backend
           /\ StoredSession(ev'.op.backend, ev'.op.sess.id) = AsStored(ev'.op)) =>
              /\ Cardinality(EntriesFor(sessions', ev'.op.sess.id)) = 1
              /\ \A i \in EntriesFor(sessions', ev'.op.sess.id) :
                    sessions'[i].messageCount = Len(ev'.op.sess.messages)]_vars

\* A creation save of two messages has completed: the new session is
\* current, its title is the first user message, the backend holds it and
\* sessions lists it once with messageCount 2.
C8_Witness ==
    /\ ev.what = "save.done"
    /\ ev.op.pc = "refresh"
    /\ ev.op.sess.id = NewIds[1]
    /\ Len(ev.op.sess.messages) = 2
    /\ ev.op.sess.title = "draw"
    /\ currentSessionId = NewIds[1]
    /\ currentSession = ev.op.sess
    /\ StoredSession(ev.op.backend, NewIds[1]) # NoSession
    /\ \E i \in DOMAIN sessions :
          sessions[i].id = NewIds[1] /\ sessions[i].messageCount = 2

\* C9: an update save called while the current session's title is not the
\* sentinel carries that title unchanged, whatever messages it carries; one
\* called while the title is the sentinel with no messages carries the
\* sentinel; and the title it carries is the title currentSession has when
\* the save has gone through.
C9_TitleIdempotent ==
    [][/\ (ev'.what = "save.call" /\ ev'.op.pc = "update") =>
              /\ currentSession.title # DefaultTitle =>
                    ev'.op.sess.title = currentSession.title
              /\ (currentSession.title = DefaultTitle /\ ev'.ret.messages = <<>>) =>
                    ev'.op.sess.title = DefaultTitle
       /\ (ev'.what = "save.done" /\ ev'.op.pc = "update") =>
              currentSession'.title = ev'.op.sess.title]_vars

\* A session titled "hello" was saved with messages whose first user
\* message is "draw" and is still titled "hello".
C9_Witness ==
    /\ ev.what = "save.done"
    /\ ev.op.pc = "update"
    /\ Len(ev.op.sess.messages) = 2
    /\ extractTitle(ev.op.sess.messages) = "draw"
    /\ currentSession.title = "hello"

\* A remote save of ev.op.sess has just gone through.
RemoteSaved ==
    /\ ev.what \in {"switch.saved", "save.stored", "save.done"}
    /\ ev.op.pc \in {"save", "create", "update"}
    /\ ev.op.backend = Remote
    /\ ev.outcome = "ok"

\* A field of some message is present and unset.
HasUnset(messages) ==
    \E i \in DOMAIN messages : \E k \in DOMAIN messages[i] \ {"timestamp"} :
        messages[i][k] = Undefined

\* C10 as amended: after saveSessionToFirestore of a session,
\* getSessionFromFirestore by its id yields the same id, the same
\* xmlSnapshots pair for pair in the same order, the same diagramXml, and
\* the messages with every unset field replaced by null: field-for-field
\* equal messages exactly when no field of a message is unset.
C10_RoundTripUpToNull ==
    RemoteSaved =>
        LET s == ev.op.sess
            loaded == StoredSession(Remote, s.id)
        IN  /\ loaded # NoSession
            /\ loaded.id = s.id
            /\ loaded.xmlSnapshots = s.xmlSnapshots
            /\ loaded.diagramXml = s.diagramXml
            /\ Len(loaded.messages) = Len(s.messages)
            /\ \A i \in DOMAIN s.messages :
                  /\ DOMAIN loaded.messages[i] = DOMAIN s.messages[i]
                  /\ \A k \in DOMAIN s.messages[i] \ {"timestamp"} :
                        loaded.messages[i][k] =
                            (IF s.messages[i][k] = Undefined THEN Null
                             ELSE s.messages[i][k])
                  /\ loaded.messages[i].timestamp = s.messages[i].timestamp
            /\ (loaded.messages = s.messages) = ~HasUnset(s.messages)

\* C10 as stated: the loaded messages, xmlSnapshots, diagramXml and id are
\* field-for-field equal to the saved ones.
C10_RoundTrip ==
    RemoteSaved =>
        LET s == ev.op.sess
            loaded == StoredSession(Remote, s.id)
        IN  /\ loaded # NoSession
            /\ loaded.id = s.id
            /\ loaded.xmlSnapshots = s.xmlSnapshots
            /\ loaded.diagramXml = s.diagramXml
            /\ loaded.messages = s.messages

\* A session of two messages and two snapshots was saved remotely and reads
\* back with its snapshots in order and the unset field of a message null.
C10_Witness ==
    /\ RemoteSaved
    /\ Len(ev.op.sess.xmlSnapshots) = 2
    /\ HasUnset(ev.op.sess.messages)
    /\ StoredSession(Remote, ev.op.sess.id).xmlSnapshots = ev.op.sess.xmlSnapshots
    /\ StoredSession(Remote, ev.op.sess.id).messages[2].metadata = Null

\* The step in which the retention pass of a local creation returns.
LimitStep(e) ==
    /\ e.what \in {"save.stored", "save.done", "save.threw"}
    /\ e.op.pc = "limit"

\* C11: after the retention pass of a local creation has run, the local
\* store holds at most MAX_SESSIONS sessions; a store within the limit is
\* left as it is; from a store one over the limit exactly one session goes;
\* whatever goes is no younger by updatedAt than whatever stays, what stays
\* is unchanged, and the session just created stays whenever some other
\* stored session is older than it.
C11_RetentionLimit ==
    [][(LimitStep(ev') /\ ev'.outcome = "ok") =>
          LET before == DOMAIN localStore
              after == DOMAIN localStore'
              new == ev'.op.sess.id
          IN  /\ Cardinality(after) <= MAX_SESSIONS
              /\ after \subseteq before
              /\ \A k \in after : localStore'[k] = localStore[k]
              /\ Cardinality(before) <= MAX_SESSIONS => after = before
              /\ Cardinality(before) = MAX_SESSIONS + 1 =>
                     Cardinality(after) = MAX_SESSIONS
              /\ \A r \in before \ after : \A k \in after :
                     localStore[r].updatedAt <= localStore[k].updatedAt
              /\ (/\ new \in before
                  /\ \E j \in before : localStore[j].updatedAt < localStore[new].updatedAt)
                    => new \in after]_vars

\* A creation found the local store at the limit: its retention pass ran on
\* MAX_SESSIONS + 1 sessions, the oldest ("a") is gone and the new session
\* is kept.
C11_Witness ==
    /\ LimitStep(ev)
    /\ ev.outcome = "ok"
    /\ Cardinality(DOMAIN localStore) = MAX_SESSIONS
    /\ "a" \notin DOMAIN localStore
    /\ ev.op.sess.id \in DOMAIN localStore
    /\ ev.op.wrote = Local

C13_BackendSelector ==
    [][\A o \in ops' \ ops :
          IF o.user # Null /\ authLive
          THEN o.backend = Remote
          ELSE localAvailable /\ o.backend = Local]_vars

\* deleteSession has called the local adapter although there is no trusted
\* identity and the local store is not available.
C13_Witness ==
    \E o \in ops : /\ o.kind = "delete"
                   /\ o.pc = "delete"
                   /\ o.backend = Local
                   /\ ~(o.user # Null /\ authLive)
                   /\ ~localAvailable

\* The steps in which a caller invokes switchSession, saveCurrentSession,
\* deleteSession or refreshSessions.
CallSteps ==
    {"switch.same", "switch.call", "save.discarded", "save.call", "delete.call",
     "refresh.none", "refresh.call"}

\* C14: initialization leaves isAvailable true exactly when there is a
\* trusted identity or an available local store; and while there is
\* neither and isAvailable is false, a call of switchSession,
\* saveCurrentSession, deleteSession or refreshSessions issues no backend
\* call and changes no state.
C14_UnavailableIsNoOp ==
    [][/\ ev'.what \in {"mount", "user"} =>
              (isAvailable' <=> ((user' # Null /\ authLive') \/ localAvailable'))
       /\ (/\ ev'.what \in CallSteps
           /\ ~isAvailable
           /\ ~(user # Null /\ authLive)
           /\ ~localAvailable) =>
              /\ ops' = ops
              /\ UNCHANGED <<sessions, curVars, storeVars, isLoading, isAvailable>>]_vars

\* A saveCurrentSession called while the engine is unavailable has ended:
\* it threw, or it made current a session that no store holds.
C14_Witness ==
    /\ ~isAvailable
    /\ ~localAvailable
    /\ user = Null
    /\ ev.what \in {"save.threw", "save.done"}
    /\ ev.op.kind = "save"
    /\ ev.op.backend = Local
    /\ \/ ev.what = "save.threw"
       \/ /\ currentSessionId = ev.op.sess.id
          /\ currentSessionId \notin DOMAIN localStore \cup DOMAIN remoteStore

\* C15: the desired-id handler never takes the engine from Loaded to Blank:
\* over the step in which the desired id changes and over the step in which
\* the handler's load resolves, a non-null currentSessionId stays non-null
\* and a current session stays a session; a desired id of null changes
\* neither and loads nothing.
C15_NeverLoadedToBlank ==
    [][ev'.what \in {"url", "url.loaded"} =>
          /\ currentSessionId # Null => currentSessionId' # Null
          /\ currentSession # NoSession => currentSession' # NoSession
          /\ (ev'.what = "url" /\ ev'.op.id = Null) =>
                 /\ UNCHANGED curVars
                 /\ ops' = ops]_vars

\* The handler's load of the latest desired id found nothing while a
\* session was current, and the session is still current.
C15_Witness ==
    /\ ev.what = "url.loaded"
    /\ ev.outcome = "ok"
    /\ ev.ret = NoSession
    /\ ev.op.seq = urlChangeSequenceRef
    /\ currentSessionId # Null
    /\ currentSession # NoSession

\* C16: a switchSession whose target the active backend does not hold
\* returns null, and neither that step nor any earlier step of the call
\* changes sessions, currentSession or currentSessionId.
C16_SwitchToMissing ==
    [][/\ ev'.what \in {"switch.call", "switch.saved"} =>
              UNCHANGED <<sessions, curVars>>
       /\ (/\ ev'.what = "switch.done"
           /\ ev'.outcome = "ok"
           /\ ev'.op.got = NoSession
           /\ StoredSession(ev'.op.backend, ev'.op.id) = NoSession) =>
              /\ ev'.ret = NoSession
              /\ UNCHANGED <<sessions, curVars>>
              /\ ops' = ops \ {ev'.op}]_vars

\* A switch away from a current session to an id no store holds has
\* returned null; the session is still current.
C16_Witness ==
    /\ ev.what = "switch.done"
    /\ ev.outcome = "ok"
    /\ ev.op.id = MissingId
    /\ ev.ret = NoSession
    /\ ev.op.sess # NoSession
    /\ currentSession = ev.op.sess
    /\ currentSessionId = ev.op.sess.id

\* A run of init() is in flight in slot n.
InitRunning(n) == \E o \in ops : o.kind = "init" /\ o.n = n

\* C17: every run of init() ends, and sets isLoading to false exactly once,
\* in the step in which it ends: a run that finds no backend ends in the
\* step that starts it; a run in flight leaves isLoading alone at each of
\* its steps but the last, whose outcome may be success, not found or a
\* failure of the migration, the list or the load.
C17_LoadingFlipsOnce ==
    /\ [][/\ ev'.what \in {"mount", "user"} =>
                  isLoading' = (\E o \in ops' \ ops : o.kind = "init")
          /\ ev'.what \in {"init.migrated", "init.listed", "init.loaded"} =>
                  /\ ev'.op \in ops
                  /\ IF \E o \in ops' : o.kind = "init" /\ o.n = ev'.op.n
                     THEN isLoading' = isLoading
                     ELSE isLoading' = FALSE]_vars
    /\ \A n \in Slots : InitRunning(n) ~> ~InitRunning(n)

\* A run of init() has just ended on a failed backend call, and isLoading
\* is false.
C17_Witness ==
    /\ ev.what \in {"init.migrated", "init.listed", "init.loaded"}
    /\ ev.outcome = "error"
    /\ ev.op.backend = Local
    /\ ~InitRunning(ev.op.n)
    /\ ~isLoading

\* C18: when a run of init() ends on a load that found nothing for a
\* non-null desired id the active backend does not hold, the state is
\* blank: currentSession and currentSessionId are null after that step.
C18_InitNotFoundIsBlank ==
    [][(/\ ev'.what = "init.loaded"
        /\ ev'.outcome = "ok"
        /\ ev'.op.id # Null
        /\ ev'.ret = NoSession
        /\ StoredSession(ev'.op.backend, ev'.op.id) = NoSession) =>
           /\ currentSession' = NoSession
           /\ currentSessionId' = Null]_vars

\* The re-initialization after a sign-out has ended: its load on the local
\* backend found nothing for the desired id, and the session that was
\* loaded from the signed-in user's remote store is still current.
C18_Witness ==
    /\ ev.what = "init.loaded"
    /\ ev.outcome = "ok"
    /\ ev.ret = NoSession
    /\ ev.op.id = initialSessionId
    /\ ev.op.user = Null
    /\ ev.op.backend = Local
    /\ user = Null
    /\ ~authLive
    /\ currentSession # NoSession
    /\ currentSessionId = currentSession.id
    /\ "userId" \in DOMAIN currentSession
    /\ currentSession.userId = UserId

\* The awaits of a list or get call.
ReadPcs == {"list", "load", "refresh"}

\* C19: the legacy migration is awaited only for an operation without a
\* user, and no list or get call is pending on the local backend before the
\* migration has completed.
C19_MigrationBeforeLocalReads ==
    \A o \in ops :
        /\ o.pc = "migrate" => (o.user = Null /\ o.backend = Local)
        /\ (o.pc \in ReadPcs /\ o.backend = Local) => migrated

\* The user object is set, auth.currentUser is gone, and a list call is
\* pending on the local backend although the migration never ran.
C19_Witness ==
    /\ ~migrated
    /\ ~authLive
    /\ localAvailable
    /\ \E o \in ops : /\ o.user # Null
                       /\ o.backend = Local
                       /\ o.pc \in {"list", "refresh"}

\* The step in which the backend delete of a deleteSession returns.
DeleteStep(e) ==
    /\ e.what \in {"delete.stored", "delete.done", "delete.threw"}
    /\ e.op.pc = "delete"

\* The refresh of the deleteSession of event e is pending.
RefreshPending(e, running) ==
    \E o \in running : o.n = e.op.n /\ o.kind = "delete" /\ o.pc = "refresh"

\* C20 as amended: when the backend delete succeeds or fails with a
\* permission-denied that is swallowed, deleteSession goes on to
\* refreshSessions in the same step, whether or not the id was current, and
\* returns only when the refresh is over (at once when refreshSessions finds
\* no backend to read); when the backend delete fails unexpectedly the call
\* throws, with no refresh and no change to the controller state.
C20_DeleteRefreshesUnlessThrown ==
    [][/\ DeleteStep(ev') =>
              IF ev'.outcome = "error"
              THEN /\ ev'.what = "delete.threw"
                   /\ ~RefreshPending(ev', ops')
                   /\ UNCHANGED <<sessions, curVars>>
              ELSE IF (ev'.op.user # Null /\ authLive) \/ localAvailable
              THEN /\ ev'.what = "delete.stored"
                   /\ RefreshPending(ev', ops')
              ELSE /\ ev'.what = "delete.done"
                   /\ ~RefreshPending(ev', ops')
       /\ (ev'.what = "delete.done" /\ ~DeleteStep(ev')) =>
              /\ RefreshPending(ev', ops)
              /\ ~RefreshPending(ev', ops')]_vars

\* C20 as stated: whatever the outcome of the backend delete, deleteSession
\* goes on to refreshSessions.
C20_DeleteAlwaysRefreshes ==
    [][DeleteStep(ev') =>
          /\ ev'.what # "delete.threw"
          /\ \/ RefreshPending(ev', ops')
             \/ ~((ev'.op.user # Null /\ authLive) \/ localAvailable)]_vars

\* The backend delete of a session that was not current was refused with
\* permission-denied, and the refresh is pending.
C20_Witness ==
    /\ DeleteStep(ev)
    /\ ev.outcome = "permission-denied"
    /\ ~ev.op.was
    /\ currentSessionId # Null
    /\ RefreshPending(ev, ops)

\* The step in which the list read of a refreshSessions returns.
RefreshStep(e) ==
    /\ e.what \in {"refresh.done", "save.done", "delete.done"}
    /\ e.op.pc = "refresh"

\* C21: a list read of refreshSessions that fails, with permission-denied
\* or with anything else, is no update: sessions keeps the value it had.
C21_FailedRefreshIsNoUpdate ==
    [][(RefreshStep(ev') /\ ev'.outcome \in {"permission-denied", "error"}) =>
          sessions' = sessions]_vars

\* The list read of a refreshSessions on the remote backend was refused
\* with permission-denied; the remote store holds sessions and the sessions
\* list is empty.
C21_Witness ==
    /\ RefreshStep(ev)
    /\ ev.op.backend = Remote
    /\ ev.outcome = "permission-denied"
    /\ ev.op.list # <<>>
    /\ DOMAIN remoteStore # {}
    /\ sessions = <<>>

\* The steps in which a backend call of an operation returns.
ResolveSteps ==
    {"init.listed", "init.loaded", "url.loaded", "switch.saved", "switch.done",
     "save.threw", "save.written", "save.stored", "save.done",
     "delete.threw", "delete.stored", "delete.done", "refresh.done"}

\* C22: whenever a call of the remote adapter fails, the adapter rethrows
\* the failure unless it is permission-denied, which it swallows; the same
\* for save, get, list and delete.
C22_UniformClassification ==
    [][(/\ ev'.what \in ResolveSteps
        /\ ev'.op.backend = Remote
        /\ ev'.outcome \in {"permission-denied", "error"}) =>
           (RemoteThrows(ev'.op.pc, ev'.outcome) <=> ev'.outcome = "error")]_vars

\* A switchSession to a session the remote store holds has returned null,
\* because the remote get failed with an unexpected error.
C22_Witness ==
    /\ ev.what = "switch.done"
    /\ ev.op.backend = Remote
    /\ ev.outcome = "error"
    /\ ev.ret = NoSession
    /\ ev.op.id \in DOMAIN remoteStore

\* The step in which the backend write of a saveCurrentSession or of a
\* deleteSession returns.
WriteStep(e) ==
    /\ e.what \in ResolveSteps
    /\ e.op.kind \in {"save", "delete"}
    /\ e.op.pc \in {"create", "update", "delete"}

\* C23: when the backend write of saveCurrentSession or deleteSession fails
\* unexpectedly the call throws in that step and sessions, currentSession
\* and currentSessionId are as they were; a permission-denied failure never
\* makes an operation throw: the write paths carry on to their next step
\* and the read paths take it for an empty answer.
C23_UnexpectedRethrownDeniedSwallowed ==
    [][/\ (WriteStep(ev') /\ ev'.outcome = "error") =>
              /\ ev'.what \in {"save.threw", "delete.threw"}
              /\ ops' = ops \ {ev'.op}
              /\ UNCHANGED <<sessions, curVars>>
       /\ (ev'.what \in ResolveSteps /\ ev'.outcome = "permission-denied") =>
              /\ ev'.what \notin {"save.threw", "delete.threw"}
              /\ ev'.what = "switch.saved" =>
                     \E o \in ops' : o.n = ev'.op.n /\ o.pc = "load"
              /\ (ev'.what = "init.listed" /\ ev'.op.id # Null) =>
                     \E o \in ops' : o.n = ev'.op.n /\ o.pc = "load"
              /\ WriteStep(ev') =>
                     \/ ev'.what \in {"save.done", "delete.done"}
                     \/ \E o \in ops' : o.n = ev'.op.n /\ o.pc = "refresh"]_vars

\* An update save on the remote backend failed unexpectedly: the call
\* threw, and the current session is not the one the save built.
C23_Witness ==
    /\ ev.what = "save.threw"
    /\ ev.outcome = "error"
    /\ ev.op.pc = "update"
    /\ ev.op.backend = Remote
    /\ currentSession # NoSession
    /\ currentSession # ev.op.sess
    /\ currentSessionId = ev.op.sess.id

\* The optional fields of a save.
OptionalFields == {"thumbnailDataUrl", "diagramHistory"}

\* C24: in the session an update save builds, each optional field keeps
\* the current session's value when the incoming value is absent, is null
\* when the incoming value is an explicit null, and is the incoming value
\* otherwise.
C24_AbsentKeepsNullClears ==
    [][(ev'.what = "save.call" /\ ev'.op.pc = "update") =>
          \A f \in OptionalFields :
              ev'.op.sess[f] =
                  CASE ev'.ret[f] = Undefined -> Field(currentSession, f)
                    [] ev'.ret[f] = Null -> Null
                    [] OTHER -> ev'.ret[f]]_vars

\* An update save came with an explicit null thumbnail, and the session it
\* built still has the previous thumbnail.
C24_Witness ==
    /\ ev.what = "save.call"
    /\ ev.op.pc = "update"
    /\ ev.ret.thumbnailDataUrl = Null
    /\ ev.op.sess.thumbnailDataUrl \notin {Null, Undefined}
    /\ ev.op.sess.thumbnailDataUrl = Field(currentSession, "thumbnailDataUrl")

\* The step in which a saveCurrentSession whose backend write succeeded
\* returns to its caller.
SaveReturns(e) ==
    /\ e.what = "save.done"
    /\ e.op.kind = "save"
    /\ e.op.saved = "ok"

\* Entry m of the sessions list shows session s.
Shows(m, s) ==
    /\ m.id = s.id
    /\ m.title = s.title
    /\ m.updatedAt = s.updatedAt
    /\ m.messageCount = Len(s.messages)
    /\ m.hasDiagram = (Len(Trim(s.diagramXml)) > 0)
    /\ m.thumbnailDataUrl = Field(s, "thumbnailDataUrl")

\* C25: when a saveCurrentSession whose write succeeded returns, in the
\* creation branch and in the update branch alike, sessions holds an entry
\* for the saved session that shows its title, updatedAt, message count,
\* hasDiagram and thumbnail.
C25_ListShowsSavedSession ==
    [][SaveReturns(ev') =>
          \E i \in DOMAIN sessions' : Shows(sessions'[i], ev'.op.sess)]_vars

\* A creation save has returned: the backend holds the new session, the
\* list read of the closing refresh failed, no operation is pending, and
\* sessions has no entry for the new session.
C25_Witness ==
    /\ SaveReturns(ev)
    /\ ev.op.pc = "refresh"
    /\ ev.outcome \in {"permission-denied", "error"}
    /\ ops = {}
    /\ currentSessionId = ev.op.sess.id
    /\ StoredSession(ev.op.backend, ev.op.sess.id) # NoSession
    /\ EntriesFor(sessions, ev.op.sess.id) = {}

\* C26: in every reachable state the entries of sessions are in
\* non-increasing order of updatedAt.
C26_SessionsNewestFirst ==
    \A i \in DOMAIN sessions : \A j \in DOMAIN sessions :
        i < j => sessions[i].updatedAt >= sessions[j].updatedAt

\* An update save of the session listed last has returned and nothing is
\* pending: its entry carries the newest updatedAt and is still last.
C26_Witness ==
    /\ ev.what = "save.done"
    /\ ev.op.pc = "update"
    /\ ev.op.saved = "ok"
    /\ ops = {}
    /\ Len(sessions) = 2
    /\ sessions[2].id = ev.op.sess.id
    /\ sessions[2].updatedAt = ev.op.sess.updatedAt
    /\ sessions[1].updatedAt < sessions[2].updatedAt

\* The ids the sessions list shows.
ListedIds == {sessions[i].id : i \in DOMAIN sessions}

\* C27: once every pending operation has completed, the ids in sessions
\* are the ids the active backend stores.
C27_ListConverges ==
    (mounted /\ ops = {}) =>
        IF user # Null /\ authLive THEN ListedIds = DOMAIN remoteStore
        ELSE localAvailable => ListedIds = DOMAIN localStore

\* Every operation has completed, the last being a refresh that was issued
\* before a delete and answered after it: sessions lists an id the active
\* backend no longer stores.
C27_Witness ==
    /\ mounted
    /\ ops = {}
    /\ ev.what = "refresh.done"
    /\ \E id \in ListedIds :
          id \notin (IF ev.op.backend = Remote THEN DOMAIN remoteStore
                     ELSE DOMAIN localStore)

\* C28: whenever no operation is in flight and currentSessionId is not
\* null, sessions has an entry with that id.
C28_CurrentIsListed ==
    (mounted /\ ops = {} /\ currentSessionId # Null) => currentSessionId \in ListedIds

\* A creation save whose remote write was denied has returned after a
\* successful refresh: the new session is current, the remote store does
\* not hold it and sessions does not list it.
C28_Witness ==
    /\ ev.what = "save.done"
    /\ ev.op.pc = "refresh"
    /\ ev.op.backend = Remote
    /\ ev.op.saved = "permission-denied"
    /\ ev.outcome = "ok"
    /\ ops = {}
    /\ currentSessionId = ev.op.sess.id
    /\ currentSessionId \notin DOMAIN remoteStore
    /\ currentSessionId \notin ListedIds

\* C29: clearCurrentSession sets currentSession and currentSessionId to
\* null whatever they were, issues no backend call and leaves sessions,
\* isLoading, isAvailable and both stores unchanged.
C29_ClearIsLocal ==
    [][ev'.what = "clear" =>
          /\ currentSession' = NoSession
          /\ currentSessionId' = Null
          /\ ops' = ops
          /\ UNCHANGED <<sessions, isLoading, isAvailable, localStore, remoteStore>>]_vars

\* The current session was cleared while an update save of it is pending:
\* nothing is current, the list and the pending save are still there.
C29_Witness ==
    /\ ev.what = "clear"
    /\ currentSession = NoSession
    /\ currentSessionId = Null
    /\ sessions # <<>>
    /\ \E o \in ops : o.kind = "save" /\ o.pc = "update" /\ Len(o.sess.messages) > 0

\* C30: when a load of the desired-id handler returns a session whose id
\* is currentSessionId, currentSession and currentSessionId are left as
\* they are.
C30_SameIdLeftUntouched ==
    [][(/\ ev'.what = "url.loaded"
        /\ ev'.ret # NoSession
        /\ ev'.ret.id = currentSessionId) =>
           UNCHANGED curVars]_vars

\* The latest desired-id load returned a copy of the current session that
\* differs from the one in memory, and the one in memory is still current.
C30_Witness ==
    /\ ev.what = "url.loaded"
    /\ ev.op.seq = urlChangeSequenceRef
    /\ ev.ret # NoSession
    /\ ev.ret.id = currentSessionId
    /\ currentSession.id = currentSessionId
    /\ currentSession # ev.ret
\* The runs of init() in flight, by slot.
InitSlots(running) == {o.n : o \in {x \in running : x.kind = "init"}}

\* C31: init() starts exactly once per identity value: a change of the
\* desired session id never starts it, no other step starts it, and the
\* mount and every change of the user start it exactly once (a run in flight
\* when a backend is there, the unavailable verdict when none is).
C31_InitOncePerIdentity ==
    [][/\ ev'.what \in {"mount", "user"} =>
            /\ ev'.ret.init
            /\ isInitializedRef'
            /\ IF user' = Null /\ ~localAvailable
               THEN /\ InitSlots(ops') \subseteq InitSlots(ops)
                    /\ ~isAvailable' /\ ~isLoading'
               ELSE /\ Cardinality(InitSlots(ops') \ InitSlots(ops)) = 1
                    /\ isAvailable' /\ isLoading'
       /\ ev'.what = "url" =>
            /\ ~ev'.ret.init
            /\ InitSlots(ops') \subseteq InitSlots(ops)
            /\ isLoading' = isLoading
       /\ ev'.what \notin {"mount", "user", "url"} =>
            InitSlots(ops') \subseteq InitSlots(ops)]_vars

\* The desired id changed twice under one identity, after init() was over.
C31_Witness ==
    /\ ev.what = "url"
    /\ events = 2
    /\ isInitializedRef
    /\ InitSlots(ops) = {}
    /\ isAvailable
    /\ ~isLoading

\* C32: in every reachable state currentSession and currentSessionId
\* agree: one is null iff the other is, and when both are set
\* currentSession.id is currentSessionId.
C32_CurrentAgrees ==
    /\ (currentSession = NoSession) <=> (currentSessionId = Null)
    /\ currentSession # NoSession => currentSession.id = currentSessionId

\* An update save has resolved after the current session was cleared or
\* replaced while its write was in flight.
C32_Witness ==
    /\ ev.what = "save.done"
    /\ ev.op.pc = "update"
    /\ currentSession = ev.op.sess
    /\ currentSessionId # ev.op.sess.id

\* C33: deleteSession(id) clears the current session only if it is still
\* id when the backend delete resolves: a session that became current while
\* the delete was in flight is still current afterwards.
C33_DeleteSparesNewCurrent ==
    [][(/\ ev'.what \in {"delete.stored", "delete.done", "delete.threw"}
        /\ ev'.op.pc = "delete"
        /\ currentSessionId # ev'.op.id) => UNCHANGED curVars]_vars

\* The delete of the session that was current is in flight and another
\* session has become current.
C33_Witness ==
    \E o \in ops :
        /\ o.kind = "delete" /\ o.pc = "delete" /\ o.was
        /\ currentSessionId \notin {Null, o.id}
        /\ currentSession # NoSession /\ currentSession.id = currentSessionId

\* C34: a deleted session stays deleted: once the backend delete of
\* deleteSession(id) has succeeded, no write of saveCurrentSession's update
\* branch or of save-before-switch puts a session with that id back into
\* that backend before deleteSession returns.
C34_DeletedStaysDeleted ==
    [][(/\ ev'.what \in {"save.done", "switch.saved"}
        /\ ev'.op.pc \in {"update", "save"}
        /\ ev'.outcome = "ok") =>
            \A o \in ops :
                (/\ o.kind = "delete" /\ o.pc = "refresh"
                 /\ o.saved = "ok" /\ o.wrote = ev'.op.backend)
                    => ev'.op.sess.id # o.id]_vars

\* deleteSession(id) has deleted a stored session from the backend and waits
\* for its list refresh while an update save of that session is in flight.
C34_Witness ==
    \E d \in ops : \E o \in ops :
        /\ d.kind = "delete" /\ d.pc = "refresh" /\ d.saved = "ok"
        /\ d.id \in StoredIds
        /\ o.kind = "save" /\ o.pc = "update" /\ o.sess.id = d.id
        /\ o.backend = d.wrote
        /\ d.id \notin DOMAIN StoreOf(localStore, remoteStore, d.wrote)

\* The ids of sessions made by the creation branch.
CreatedIds == {NewIds[i] : i \in DOMAIN NewIds}

\* C35: two overlapping saveCurrentSession calls from the blank state create
\* at most one session: when the write of a new session lands, every other
\* save still in flight that carries a new session carries that same one.
C35_OverlappingSavesCreateOne ==
    [][(/\ ev'.what \in {"save.written", "save.stored", "save.done"}
        /\ ev'.op.pc = "create"
        /\ ev'.outcome = "ok") =>
            \A o \in ops :
                (o.kind = "save" /\ o.sess.id \in CreatedIds)
                    => o.sess.id = ev'.op.sess.id]_vars

\* Two saves called from the blank state are in flight at once.
C35_Witness ==
    /\ currentSession = NoSession
    /\ \E o1 \in ops : \E o2 \in ops :
        /\ o1.n # o2.n
        /\ o1.kind = "save" /\ o1.pc = "create"
        /\ o2.kind = "save" /\ o2.pc = "create"

\* C36: of two overlapping switchSession calls that both find their
\* session, the one issued later wins: when the earlier call resolves right
\* after the later one, the current session is still the later call's.
C36_LaterSwitchWins ==
    [][(/\ ev.what = "switch.done" /\ ev.ret # NoSession
        /\ ev'.what = "switch.done" /\ ev'.ret # NoSession
        /\ ev'.op \in ops
        /\ ev'.op.at < ev.op.at) => currentSessionId' = ev.op.id]_vars

\* The later of two overlapping switches has resolved and is current while
\* the load of the earlier one, which will find its session, is pending.
C36_Witness ==
    /\ ev.what = "switch.done" /\ ev.ret # NoSession
    /\ currentSessionId = ev.op.id
    /\ \E o \in ops :
        /\ o.kind = "switch" /\ o.pc = "load"
        /\ o.at < ev.op.at
        /\ o.id # ev.op.id
        /\ StoredSession(o.backend, o.id) # NoSession

\* C37: a session is never written to a backend other than its own: the
\* local store holds no session obtained from the remote store (those carry
\* the userId of their document), and no session made by the creation
\* branch is in both stores.
C37_NoCrossBackendWrite ==
    /\ \A id \in DOMAIN localStore : "userId" \notin DOMAIN localStore[id]
    /\ \A id \in CreatedIds : ~(id \in DOMAIN localStore /\ id \in DOMAIN remoteStore)

\* After the identity changed, a save or a save-before-switch of a session
\* loaded from the remote store has been issued to the local store.
C37_Witness ==
    \E o \in ops :
        /\ o.kind \in {"save", "switch"}
        /\ o.pc \in {"update", "save"}
        /\ o.backend = Local
        /\ localAvailable
        /\ "userId" \in DOMAIN o.sess

\* C38: save-before-switch never loses work: when its write of the outgoing
\* session lands right after the write of a saveCurrentSession issued
\* before the switch, the backend keeps the messages and the diagram that
\* save stored.
C38_SwitchSaveKeepsSavedWork ==
    [][(/\ ev.what = "save.done" /\ ev.op.pc = "update" /\ ev.outcome = "ok"
        /\ ev'.what = "switch.saved" /\ ev'.outcome = "ok"
        /\ ev'.op.sess.id = ev.op.sess.id
        /\ ev'.op.backend = ev.op.backend
        /\ ev.op.at < ev'.op.at) =>
            LET before == StoredSessionIn(localStore, remoteStore,
                                          ev.op.backend, ev.op.sess.id)
                after == StoredSessionIn(localStore', remoteStore',
                                         ev.op.backend, ev.op.sess.id)
            IN  /\ after.messages = before.messages
                /\ after.diagramXml = before.diagramXml]_vars

\* An update save has just stored new messages while the save-before-switch
\* of the same session, called after it, is in flight with the older copy.
C38_Witness ==
    /\ ev.what = "save.done" /\ ev.op.pc = "update" /\ ev.outcome = "ok"
    /\ \E o \in ops :
        /\ o.kind = "switch" /\ o.pc = "save"
        /\ o.sess.id = ev.op.sess.id
        /\ o.backend = ev.op.backend
        /\ ev.op.at < o.at
        /\ o.sess.messages # ev.op.sess.messages

\* A list read of init() or of refreshSessions has been answered.
ListStep(e) ==
    \/ e.what = "init.listed"
    \/ e.what \in {"refresh.done", "save.done", "delete.done"} /\ e.op.pc = "refresh"

\* C39: after an identity change the list is never one fetched for the
\* previous identity: a list read of an init() or a refresh that was started
\* for another user than the present one leaves sessions alone when it is
\* answered.
C39_NoListOfPreviousIdentity ==
    [][(/\ ListStep(ev')
        /\ ev'.outcome = "ok"
        /\ ev'.op.user # user) => sessions' = sessions]_vars

\* The list read of an init() started for the previous user was answered
\* after the user changed, and sessions is the previous backend's list and
\* not the list of the backend of the present identity.
C39_Witness ==
    /\ ListStep(ev)
    /\ ev.outcome = "ok"
    /\ ev.op.user # user
    /\ sessions = StoredMetadata(ev.op.backend)
    /\ sessions # StoredMetadata(BackendFor(user))
    /\ \A o \in ops : o.pc \notin {"list", "refresh", "migrate"}

\* C40: the creation branch makes a session current only when it was
\* persisted: when the remote write of the new session is denied, the
\* session does not become the current one.
C40_UnstoredNeverCurrent ==
    [][(/\ ev'.what \in {"save.stored", "save.done", "save.threw"}
        /\ ev'.op.pc = "create"
        /\ ev'.outcome = "permission-denied") =>
            /\ currentSessionId' # ev'.op.sess.id
            /\ currentSession' # ev'.op.sess]_vars

\* The remote write of a new session was denied from the blank state and
\* the creation branch has gone on: the session is in no store.
C40_Witness ==
    /\ ev.what \in {"save.stored", "save.done"}
    /\ ev.op.pc = "create"
    /\ ev.op.backend = Remote
    /\ ev.outcome = "permission-denied"
    /\ ev.op.sess.id \notin DOMAIN remoteStore \cup DOMAIN localStore
    /\ currentSession = ev.op.sess

====
